---- MODULE Spec2Model ----
(***************************************************************************)
(* chronolist: a terminal checklist that times each item.                  *)
(*                                                                         *)
(* The repository holds two programs built on the same Update/View loop:   *)
(*   "checklist" - the single-level checklist with global pause and        *)
(*                 restart (src/unnamed/part_000, lines 1-320);            *)
(*   "tasks"     - the two-level task/item checklist (src/main.go).        *)
(* The variable `program` says which of the two is running; each action    *)
(* is the Update handler of one key or message of that program.            *)
(*                                                                         *)
(* Time is counted in clock units, Second units to the second, so that     *)
(* the second-granular RFC3339 text written to the store loses the         *)
(* sub-second part exactly as time.Format does.                            *)
(***************************************************************************)
EXTENDS Integers, Sequences, FiniteSets, TLC

\* ---------------------------------------------------------------- bounds
MaxTime == 2        \* the clock runs over 0..MaxTime
MaxItems == 2       \* rows per collection shown on screen
MaxDrift == 1       \* clock advance between two reads inside one handler
MaxId == 2          \* AUTOINCREMENT ids handed out per table
Second == 2         \* clock units in one second

\* ------------------------------------------------------------- constants
NotStarted == 0
Started == 1
Done == 2

\* A *time.Time: <<>> is nil, <<t>> points to t.
Nil == <<>>
ptr(t) == <<t>>

VARIABLES
    program,        \* "checklist" or "tasks"
    clock,          \* the wall clock, what time.Now() returns
    tickDue,        \* the pending tea.Tick: <<t>> fires at t, <<>> none
    items,          \* model.items
    cursor,         \* model.cursor
    paused,         \* model.paused
    pausedAt,       \* model.pausedAt
    tasks,          \* model.tasks                       (tasks program)
    selectedTaskID, \* model.selectedTaskID              (tasks program)
    dbItems,        \* table items, rows in rowid order
    dbTasks,        \* table tasks, rows in rowid order  (tasks program)
    itemSeq,        \* last AUTOINCREMENT id of table items
    taskSeq,        \* last AUTOINCREMENT id of table tasks
    activeTime,     \* history: per item, clock units spent Started and
                    \* not paused since its creation or last restart
    shownAtPause    \* history: per item, <<d>> is the duration View showed
                    \* when the running pause began; <<>> when the item was
                    \* not Started then or was toggled/restarted since

vars == <<program, clock, tickDue, items, cursor, paused, pausedAt, tasks,
          selectedTaskID, dbItems, dbTasks, itemSeq, taskSeq, activeTime,
          shownAtPause>>

mem == <<items, cursor, paused, pausedAt, tasks, selectedTaskID>>
store == <<dbItems, dbTasks, itemSeq, taskSeq>>
hist == <<activeTime, shownAtPause>>

\* ------------------------------------------------------------ characters
SP == " "
BS == "\\"
CmdQuit == <<BS, "q">>
CmdPause == <<BS, "p">>
CmdRestart == <<BS, "r">>
CmdDelete == <<BS, "d">>

\* m.input.Value() when a key arrives: what the user has typed so far.
\* The text input is cleared by every command, so its value is an input of
\* the handler that reads it.
ChecklistInputs == { <<>>, <<SP>>, CmdPause, CmdRestart,
                     <<"a">>, <<SP, "a">>, <<"b">> }
TaskInputs == { <<>>, <<SP>>, CmdDelete, <<"a">>, <<SP, "a">> }

RECURSIVE TrimLeft(_)
TrimLeft(s) == IF s # <<>> /\ Head(s) = SP THEN TrimLeft(Tail(s)) ELSE s

RECURSIVE TrimRight(_)
TrimRight(s) ==
    IF s # <<>> /\ s[Len(s)] = SP THEN TrimRight(SubSeq(s, 1, Len(s) - 1))
    ELSE s

\* strings.TrimSpace
TrimSpace(s) == TrimRight(TrimLeft(s))

\* ------------------------------------------------------------------ time
\* t.Format(time.RFC3339) followed by time.Parse: the instant cut down to
\* the whole second (RFC3339 carries no fraction).
FormatRFC3339(t) == t - (t % Second)

\* d.Round(time.Second): to the nearest second, halves away from zero.
RoundAbs(d) ==
    LET r == d % Second
    IN  IF r + r < Second THEN d - r ELSE d + Second - r
Round(d) == IF d < 0 THEN 0 - RoundAbs(0 - d) ELSE RoundAbs(d)

\* ------------------------------------------------------- small utilities
SetItem(seq, i, v) == [seq EXCEPT ![i] = v]

RECURSIVE SumTo(_, _)
SumTo(f, n) == IF n = 0 THEN 0 ELSE f[n] + SumTo(f, n - 1)

\* ============================================================ checklist
\* The single-level checklist, src/unnamed/part_000 lines 1-320.

\* saveItem: INSERT one row; the id comes from AUTOINCREMENT.
saveItem(db, seq, it) ==
    Append(db, [id |-> seq + 1,
                text |-> it.text,
                status |-> it.status,
                created_at |-> FormatRFC3339(it.createdAt),
                checked_at |-> IF it.checkedAt # Nil
                               THEN ptr(FormatRFC3339(it.checkedAt[1]))
                               ELSE Nil,
                frozen_duration |-> it.frozenDuration])

\* updateItem: UPDATE ... WHERE text=?, every row carrying that text.
updateItem(db, it) ==
    [r \in DOMAIN db |->
        IF db[r].text = it.text
        THEN [db[r] EXCEPT
                !.status = it.status,
                !.created_at = FormatRFC3339(it.createdAt),
                !.checked_at = IF it.checkedAt # Nil
                               THEN ptr(FormatRFC3339(it.checkedAt[1]))
                               ELSE Nil,
                !.frozen_duration = it.frozenDuration]
        ELSE db[r]]

RECURSIVE updateItems(_, _, _)
\* updateItem called for each Started item of its, in index order up to n.
updateItems(db, its, n) ==
    IF n = 0 THEN db
    ELSE LET d == updateItems(db, its, n - 1)
         IN  IF its[n].status = Started THEN updateItem(d, its[n]) ELSE d

\* The item appended by the default branch of "enter".
newItem(text, now) ==
    [text |-> text, status |-> NotStarted, createdAt |-> now,
     checkedAt |-> Nil, frozenDuration |-> 0]

\* toggleItem with the NotStarted branch forgetting "i.checkedAt = nil".
toggleItem_KeepsCheckedAt(it, isPaused, now) ==
    CASE it.status = NotStarted ->
            [it EXCEPT !.status = Started,
                       !.createdAt = IF it.frozenDuration > 0
                                     THEN now - it.frozenDuration
                                     ELSE now]
      [] it.status = Started ->
            LET at == IF isPaused THEN it.createdAt + it.frozenDuration
                      ELSE now
            IN  [it EXCEPT !.checkedAt = ptr(at),
                           !.frozenDuration = at - it.createdAt,
                           !.status = Done]
      [] it.status = Done ->
            [it EXCEPT !.status = NotStarted]

\* toggleItem with the Done branch also zeroing frozenDuration.
toggleItem_ResetsOnReopen(it, isPaused, now) ==
    CASE it.status = NotStarted ->
            [it EXCEPT !.status = Started,
                       !.createdAt = IF it.frozenDuration > 0
                                     THEN now - it.frozenDuration
                                     ELSE now,
                       !.checkedAt = Nil]
      [] it.status = Started ->
            LET at == IF isPaused THEN it.createdAt + it.frozenDuration
                      ELSE now
            IN  [it EXCEPT !.checkedAt = ptr(at),
                           !.frozenDuration = at - it.createdAt,
                           !.status = Done]
      [] it.status = Done ->
            [it EXCEPT !.status = NotStarted, !.frozenDuration = 0]

\* toggleItem with the Started branch ignoring m.paused.
toggleItem_StopsAtNow(it, isPaused, now) ==
    CASE it.status = NotStarted ->
            [it EXCEPT !.status = Started,
                       !.createdAt = IF it.frozenDuration > 0
                                     THEN now - it.frozenDuration
                                     ELSE now,
                       !.checkedAt = Nil]
      [] it.status = Started ->
            [it EXCEPT !.checkedAt = ptr(now),
                       !.frozenDuration = now - it.createdAt,
                       !.status = Done]
      [] it.status = Done ->
            [it EXCEPT !.status = NotStarted]

\* The " " key on one item: NotStarted -> Started -> Done -> NotStarted.
toggleItem(it, isPaused, now) ==
    CASE it.status = NotStarted ->
            [it EXCEPT !.status = Started,
                       !.createdAt = IF it.frozenDuration > 0
                                     THEN now - it.frozenDuration
                                     ELSE now,
                       !.checkedAt = Nil]
      [] it.status = Started ->
            LET at == IF isPaused THEN it.createdAt + it.frozenDuration
                      ELSE now
            IN  [it EXCEPT !.checkedAt = ptr(at),
                           !.frozenDuration = at - it.createdAt,
                           !.status = Done]
      [] it.status = Done ->
            [it EXCEPT !.status = NotStarted]

\* restartItem forgetting "item.frozenDuration = 0".
restartItem_KeepsFrozen(it, now) ==
    [it EXCEPT !.createdAt = now, !.checkedAt = Nil]

\* The "\r" command on one item.
restartItem(it, now) ==
    [it EXCEPT !.createdAt = now, !.frozenDuration = 0, !.checkedAt = Nil]

\* pauseSweep without the "status == Started" test.
pauseSweep_AllItems(its, reads) ==
    [i \in DOMAIN its |->
        [its[i] EXCEPT !.frozenDuration = reads[i] - its[i].createdAt]]

\* The pause sweep: item i reads the clock at reads[i] (time.Since).
pauseSweep(its, reads) ==
    [i \in DOMAIN its |->
        IF its[i].status = Started
        THEN [its[i] EXCEPT !.frozenDuration = reads[i] - its[i].createdAt]
        ELSE its[i]]

\* resumeSweep shifting createdAt back instead of forward.
resumeSweep_ShiftsBack(its, elapsedPaused) ==
    [i \in DOMAIN its |->
        IF its[i].status = Started
        THEN [its[i] EXCEPT !.createdAt = its[i].createdAt - elapsedPaused]
        ELSE its[i]]

\* The resume sweep: every Started item is shifted by elapsedPaused.
resumeSweep(its, elapsedPaused) ==
    [i \in DOMAIN its |->
        IF its[i].status = Started
        THEN [its[i] EXCEPT !.createdAt = its[i].createdAt + elapsedPaused]
        ELSE its[i]]

\* duration showing the running clock also while paused.
duration_IgnoresPause(it, isPaused, now) ==
    IF it.status = Done /\ it.checkedAt # Nil THEN it.frozenDuration
    ELSE IF it.status = Started THEN now - it.createdAt
         ELSE it.frozenDuration

\* View: the duration of one line before rounding.
duration(it, isPaused, now) ==
    IF it.status = Done /\ it.checkedAt # Nil THEN it.frozenDuration
    ELSE IF it.status = Started
         THEN IF isPaused THEN it.frozenDuration ELSE now - it.createdAt
         ELSE it.frozenDuration

\* View: the duration as printed, duration.Round(time.Second).
shown(it, isPaused, now) == Round(duration(it, isPaused, now))

IsChecklist == program = "checklist"

\* case "up"
KeyUp ==
    /\ IsChecklist
    /\ cursor > 0
    /\ cursor' = cursor - 1
    /\ UNCHANGED <<program, clock, tickDue, items, paused, pausedAt, tasks,
                   selectedTaskID, store, hist>>

\* case "down"
KeyDown ==
    /\ IsChecklist
    /\ cursor < Len(items) - 1
    /\ cursor' = cursor + 1
    /\ UNCHANGED <<program, clock, tickDue, items, paused, pausedAt, tasks,
                   selectedTaskID, store, hist>>

\* "enter" on "\p" while not paused.
Pause ==
    /\ IsChecklist
    /\ \E input \in ChecklistInputs : TrimSpace(input) = CmdPause
    /\ ~paused
    /\ \E drift \in [DOMAIN items -> 0..MaxDrift] :
          LET now == clock
              reads == [i \in DOMAIN items |-> now + SumTo(drift, i)]
              last == now + SumTo(drift, Len(items))
              swept == pauseSweep(items, reads)
          IN  /\ \A i \in DOMAIN items :
                    items[i].status # Started => drift[i] = 0
              /\ last <= MaxTime
              /\ paused' = TRUE
              /\ pausedAt' = now
              /\ items' = swept
              /\ dbItems' = updateItems(dbItems, swept, Len(swept))
              /\ clock' = last
              /\ shownAtPause' =
                    [i \in DOMAIN items |->
                        IF items[i].status = Started
                        THEN <<duration(items[i], paused, now)>>
                        ELSE <<>>]
    /\ UNCHANGED <<program, tickDue, cursor, tasks, selectedTaskID, dbTasks,
                   itemSeq, taskSeq, activeTime>>

\* "enter" on "\p" while paused.
Resume ==
    /\ IsChecklist
    /\ \E input \in ChecklistInputs : TrimSpace(input) = CmdPause
    /\ paused
    /\ LET now == clock
           elapsedPaused == now - pausedAt
           swept == resumeSweep(items, elapsedPaused)
       IN  /\ items' = swept
           /\ dbItems' = updateItems(dbItems, swept, Len(swept))
    /\ paused' = FALSE
    /\ UNCHANGED <<program, clock, tickDue, cursor, pausedAt, tasks,
                   selectedTaskID, dbTasks, itemSeq, taskSeq, hist>>

\* "enter" on "\r".
Restart ==
    /\ IsChecklist
    /\ \E input \in ChecklistInputs : TrimSpace(input) = CmdRestart
    /\ cursor >= 0 /\ cursor < Len(items)
    /\ LET it == restartItem(items[cursor + 1], clock)
       IN  /\ items' = SetItem(items, cursor + 1, it)
           /\ dbItems' = updateItem(dbItems, it)
    /\ activeTime' = SetItem(activeTime, cursor + 1, 0)
    /\ shownAtPause' = SetItem(shownAtPause, cursor + 1, <<>>)
    /\ UNCHANGED <<program, clock, tickDue, cursor, paused, pausedAt, tasks,
                   selectedTaskID, dbTasks, itemSeq, taskSeq>>

\* "enter", default branch: add the trimmed input as a new item.
Add ==
    /\ IsChecklist
    /\ \E input \in ChecklistInputs :
          /\ TrimSpace(input) \notin {CmdQuit, CmdPause, CmdRestart}
          /\ TrimSpace(input) # <<>>
          /\ Len(items) < MaxItems
          /\ LET it == newItem(TrimSpace(input), clock)
             IN  /\ items' = Append(items, it)
                 /\ dbItems' = saveItem(dbItems, itemSeq, it)
                 /\ itemSeq' = itemSeq + 1
    /\ activeTime' = Append(activeTime, 0)
    /\ shownAtPause' = Append(shownAtPause, <<>>)
    /\ UNCHANGED <<program, clock, tickDue, cursor, paused, pausedAt, tasks,
                   selectedTaskID, dbTasks, taskSeq>>

\* case " " with an empty input.
Toggle ==
    /\ IsChecklist
    /\ \E input \in ChecklistInputs : TrimSpace(input) = <<>>
    /\ Len(items) > 0
    /\ LET it == toggleItem(items[cursor + 1], paused, clock)
       IN  /\ items' = SetItem(items, cursor + 1, it)
           /\ dbItems' = updateItem(dbItems, it)
    /\ shownAtPause' = SetItem(shownAtPause, cursor + 1, <<>>)
    /\ UNCHANGED <<program, clock, tickDue, cursor, paused, pausedAt, tasks,
                   selectedTaskID, dbTasks, itemSeq, taskSeq, activeTime>>

\* ================================================================ tasks
\* The two-level task/item checklist, src/main.go.

IsTasks == program = "tasks"

\* An index expression m.tasks[m.cursor] or m.items[m.cursor] outside the
\* slice: the Go runtime panics and the program is gone.
Panicked == "panicked"

\* loadTasks: SELECT id, code, title, status FROM tasks.
loadTasks(db) ==
    [r \in DOMAIN db |->
        [ID |-> db[r].id, Code |-> db[r].code, Title |-> db[r].title,
         Status |-> db[r].status]]

\* loadItems: SELECT ... FROM items WHERE task_id = ?, each timestamp
\* parsed back from its RFC3339 text.
loadItems(db, taskID) ==
    LET OfTask(r) == r.task_id = taskID
        rows == SelectSeq(db, OfTask)
    IN  [r \in DOMAIN rows |->
            [ID |-> rows[r].id,
             TaskID |-> rows[r].task_id,
             Text |-> rows[r].text,
             Status |-> rows[r].status,
             CreatedAt |-> rows[r].created_at,
             CheckedAt |-> rows[r].checked_at,
             FrozenDuration |-> rows[r].frozen_duration]]

\* saveTask: INSERT INTO tasks with status NotStarted.
saveTask(db, seq, code, title) ==
    Append(db, [id |-> seq + 1, code |-> code, title |-> title,
                status |-> NotStarted])

\* deleteTask without its first statement: the items are left behind.
deleteItemsOfTask_KeepsItems(db, taskID) == db

\* deleteTask, first statement: DELETE FROM items WHERE task_id = ?
deleteItemsOfTask(db, taskID) ==
    LET Other(r) == r.task_id # taskID
    IN  SelectSeq(db, Other)

\* deleteTask, second statement: DELETE FROM tasks WHERE id = ?
deleteTask(db, taskID) ==
    LET Other(r) == r.id # taskID
    IN  SelectSeq(db, Other)

\* deleteItem: DELETE FROM items WHERE id = ?
deleteItem(db, itemID) ==
    LET Other(r) == r.id # itemID
    IN  SelectSeq(db, Other)

\* saveItem of main.go: INSERT one row of a task's item.
saveTaskItem(db, seq, it) ==
    Append(db, [id |-> seq + 1,
                task_id |-> it.TaskID,
                text |-> it.Text,
                status |-> it.Status,
                created_at |-> FormatRFC3339(it.CreatedAt),
                checked_at |-> IF it.CheckedAt # Nil
                               THEN ptr(FormatRFC3339(it.CheckedAt[1]))
                               ELSE Nil,
                frozen_duration |-> it.FrozenDuration])

\* The UPDATE items ... WHERE id = ? written by the " " key.
updateTaskItem(db, it) ==
    [r \in DOMAIN db |->
        IF db[r].id = it.ID
        THEN [db[r] EXCEPT
                !.status = it.Status,
                !.created_at = FormatRFC3339(it.CreatedAt),
                !.checked_at = IF it.CheckedAt # Nil
                               THEN ptr(FormatRFC3339(it.CheckedAt[1]))
                               ELSE Nil,
                !.frozen_duration = it.FrozenDuration]
        ELSE db[r]]

\* SELECT COUNT(*) FROM items WHERE task_id = ? AND status = ?
CountStatus(db, taskID, status) ==
    Cardinality({r \in DOMAIN db :
                    db[r].task_id = taskID /\ db[r].status = status})

\* newStatus without the "total > 0" test: an empty task counts as Done.
newStatus_EmptyIsDone(total, done, started) ==
    IF done = total THEN Done
    ELSE IF started > 0 \/ done > 0 THEN Started
    ELSE NotStarted

\* The aggregation rule of updateTaskStatus.
newStatus(total, done, started) ==
    IF done = total /\ total > 0 THEN Done
    ELSE IF started > 0 \/ done > 0 THEN Started
    ELSE NotStarted

\* updateTaskStatus whose UPDATE never reaches the row.
updateTaskStatus_NoWrite(dbT, dbI, taskID) == dbT

\* updateTaskStatus: UPDATE tasks SET status = ? WHERE id = ?
updateTaskStatus(dbT, dbI, taskID) ==
    LET total == Cardinality({r \in DOMAIN dbI : dbI[r].task_id = taskID})
        done == CountStatus(dbI, taskID, Done)
        started == CountStatus(dbI, taskID, Started)
    IN  [r \in DOMAIN dbT |->
            IF dbT[r].id = taskID
            THEN [dbT[r] EXCEPT !.status = newStatus(total, done, started)]
            ELSE dbT[r]]

\* The item built by "enter" inside a task; the zero values of the struct
\* fill ID, CheckedAt and FrozenDuration.
newTaskItem(taskID, text, now) ==
    [ID |-> 0, TaskID |-> taskID, Text |-> text, Status |-> NotStarted,
     CreatedAt |-> now, CheckedAt |-> Nil, FrozenDuration |-> 0]

\* toggleTaskItem with Done as a final state.
toggleTaskItem_DoneIsFinal(it, now) ==
    CASE it.Status = NotStarted ->
            [it EXCEPT !.Status = Started, !.CreatedAt = now]
      [] it.Status = Started ->
            [it EXCEPT !.Status = Done,
                       !.CheckedAt = ptr(now),
                       !.FrozenDuration = now - it.CreatedAt]
      [] it.Status = Done -> it

\* The " " key on one item of a task.
toggleTaskItem(it, now) ==
    CASE it.Status = NotStarted ->
            [it EXCEPT !.Status = Started, !.CreatedAt = now]
      [] it.Status = Started ->
            [it EXCEPT !.Status = Done,
                       !.CheckedAt = ptr(now),
                       !.FrozenDuration = now - it.CreatedAt]
      [] it.Status = Done ->
            [it EXCEPT !.Status = NotStarted]

\* View of main.go: the duration of one item line before rounding.
taskItemDuration(it, isPaused, now) ==
    IF it.Status = Started /\ ~isPaused THEN now - it.CreatedAt
    ELSE it.FrozenDuration

\* Any key while the input reads "\d", in the task list.
DeleteTask ==
    /\ IsTasks
    /\ \E input \in TaskInputs : TrimSpace(input) = CmdDelete
    /\ selectedTaskID = 0 /\ Len(tasks) > 0
    /\ IF cursor < Len(tasks)
       THEN LET taskID == tasks[cursor + 1].ID
                dbT == deleteTask(dbTasks, taskID)
            IN  /\ dbItems' = deleteItemsOfTask(dbItems, taskID)
                /\ dbTasks' = dbT
                /\ tasks' = loadTasks(dbT)
                /\ cursor' = IF cursor > 0 THEN cursor - 1 ELSE cursor
                /\ UNCHANGED program
       ELSE /\ program' = Panicked
            /\ UNCHANGED <<dbItems, dbTasks, tasks, cursor>>
    /\ UNCHANGED <<clock, tickDue, items, paused, pausedAt, selectedTaskID,
                   itemSeq, taskSeq, hist>>

\* Any key while the input reads "\d", inside a task.
DeleteItem ==
    /\ IsTasks
    /\ \E input \in TaskInputs : TrimSpace(input) = CmdDelete
    /\ selectedTaskID # 0 /\ Len(items) > 0
    /\ IF cursor < Len(items)
       THEN LET itemID == items[cursor + 1].ID
                dbI == deleteItem(dbItems, itemID)
            IN  /\ dbItems' = dbI
                /\ items' = loadItems(dbI, selectedTaskID)
                /\ dbTasks' = updateTaskStatus(dbTasks, dbI, selectedTaskID)
                /\ cursor' = IF cursor > 0 THEN cursor - 1 ELSE cursor
                /\ UNCHANGED program
       ELSE /\ program' = Panicked
            /\ UNCHANGED <<dbItems, dbTasks, items, cursor>>
    /\ UNCHANGED <<clock, tickDue, paused, pausedAt, tasks, selectedTaskID,
                   itemSeq, taskSeq, hist>>

\* "enter" in the task list on an empty input: open the task at the cursor.
SelectTask ==
    /\ IsTasks
    /\ \E input \in TaskInputs : TrimSpace(input) = <<>>
    /\ selectedTaskID = 0 /\ Len(tasks) > 0
    /\ IF cursor < Len(tasks)
       THEN /\ selectedTaskID' = tasks[cursor + 1].ID
            /\ items' = loadItems(dbItems, tasks[cursor + 1].ID)
            /\ cursor' = 0
            /\ UNCHANGED program
       ELSE /\ program' = Panicked
            /\ UNCHANGED <<selectedTaskID, items, cursor>>
    /\ UNCHANGED <<clock, tickDue, paused, pausedAt, tasks, store, hist>>

\* "enter" in the task list on a non-empty input: a new task.
AddTask ==
    /\ IsTasks
    /\ selectedTaskID = 0
    /\ Len(tasks) < MaxItems /\ taskSeq < MaxId
    /\ \E input \in TaskInputs :
          /\ TrimSpace(input) # <<>>
          /\ ~(TrimSpace(input) = CmdDelete /\ Len(tasks) > 0)
          /\ LET dbT == saveTask(dbTasks, taskSeq, Len(tasks) + 1,
                                 TrimSpace(input))
             IN  /\ dbTasks' = dbT
                 /\ tasks' = loadTasks(dbT)
    /\ taskSeq' = taskSeq + 1
    /\ UNCHANGED <<program, clock, tickDue, items, cursor, paused, pausedAt,
                   selectedTaskID, dbItems, itemSeq, hist>>

\* "enter" inside a task on a non-empty input: a new item of that task.
AddItem ==
    /\ IsTasks
    /\ selectedTaskID # 0
    /\ Len(items) < MaxItems /\ itemSeq < MaxId
    /\ \E input \in TaskInputs :
          /\ TrimSpace(input) # <<>>
          /\ ~(TrimSpace(input) = CmdDelete /\ Len(items) > 0)
          /\ LET it == newTaskItem(selectedTaskID, TrimSpace(input), clock)
                 dbI == saveTaskItem(dbItems, itemSeq, it)
             IN  /\ dbItems' = dbI
                 /\ items' = loadItems(dbI, selectedTaskID)
                 /\ dbTasks' = updateTaskStatus(dbTasks, dbI, selectedTaskID)
    /\ itemSeq' = itemSeq + 1
    /\ UNCHANGED <<program, clock, tickDue, cursor, paused, pausedAt, tasks,
                   selectedTaskID, taskSeq, hist>>

\* case "esc": back to the task list; the cursor stays where it was.
Esc ==
    /\ IsTasks
    /\ selectedTaskID # 0
    /\ selectedTaskID' = 0
    /\ items' = <<>>
    /\ tasks' = loadTasks(dbTasks)
    /\ UNCHANGED <<program, clock, tickDue, cursor, paused, pausedAt, store,
                   hist>>

\* case "up" of main.go
TaskUp ==
    /\ IsTasks
    /\ cursor > 0
    /\ cursor' = cursor - 1
    /\ UNCHANGED <<program, clock, tickDue, items, paused, pausedAt, tasks,
                   selectedTaskID, store, hist>>

\* case "down" of main.go
TaskDown ==
    /\ IsTasks
    /\ \/ selectedTaskID = 0 /\ cursor < Len(tasks) - 1
       \/ selectedTaskID # 0 /\ cursor < Len(items) - 1
    /\ cursor' = cursor + 1
    /\ UNCHANGED <<program, clock, tickDue, items, paused, pausedAt, tasks,
                   selectedTaskID, store, hist>>

\* case " " of main.go: toggle the item at the cursor.
ToggleTaskItem ==
    /\ IsTasks
    /\ selectedTaskID # 0 /\ Len(items) > 0
    /\ IF cursor < Len(items)
       THEN LET it == toggleTaskItem(items[cursor + 1], clock)
                dbI == updateTaskItem(dbItems, it)
            IN  /\ items' = SetItem(items, cursor + 1, it)
                /\ dbItems' = dbI
                /\ dbTasks' = updateTaskStatus(dbTasks, dbI, selectedTaskID)
                /\ UNCHANGED program
       ELSE /\ program' = Panicked
            /\ UNCHANGED <<items, dbItems, dbTasks>>
    /\ UNCHANGED <<clock, tickDue, cursor, paused, pausedAt, tasks,
                   selectedTaskID, itemSeq, taskSeq, hist>>

\* Tick used to refresh the stored duration of the running items.
Tick_RefreshesFrozen ==
    /\ IsChecklist \/ IsTasks
    /\ tickDue # Nil
    /\ clock >= tickDue[1]
    /\ tickDue' = IF IsChecklist THEN ptr(clock + Second) ELSE Nil
    /\ items' = IF IsChecklist
                THEN [i \in DOMAIN items |->
                        IF items[i].status = Started /\ ~paused
                        THEN [items[i] EXCEPT
                                !.frozenDuration = clock - items[i].createdAt]
                        ELSE items[i]]
                ELSE items
    /\ UNCHANGED <<program, clock, cursor, paused, pausedAt, tasks,
                   selectedTaskID, store, hist>>

\* tickMsg. The checklist answers with tick(), so the next tick is due a
\* second later; main.go has no case for it and schedules nothing.
Tick ==
    /\ IsChecklist \/ IsTasks
    /\ tickDue # Nil
    /\ clock >= tickDue[1]
    /\ tickDue' = IF IsChecklist THEN ptr(clock + Second) ELSE Nil
    /\ UNCHANGED <<program, clock, mem, store, hist>>

\* The wall clock moves on by one unit between two messages; a tick that
\* is due is delivered before the clock moves further.
Elapse ==
    /\ IsChecklist \/ IsTasks
    /\ clock < MaxTime
    /\ tickDue # Nil => clock < tickDue[1]
    /\ clock' = clock + 1
    /\ activeTime' =
          [i \in DOMAIN activeTime |->
              IF IsChecklist /\ items[i].status = Started /\ ~paused
              THEN activeTime[i] + 1
              ELSE activeTime[i]]
    /\ UNCHANGED <<program, tickDue, mem, store, shownAtPause>>

\* ================================================================ system
\* initialModel over an empty store, and Init's first tick().
InitModel ==
    /\ clock = 0
    /\ tickDue = ptr(Second)
    /\ items = <<>>
    /\ cursor = 0
    /\ paused = FALSE
    /\ pausedAt = 0
    /\ tasks = <<>>
    /\ selectedTaskID = 0
    /\ dbItems = <<>>
    /\ dbTasks = <<>>
    /\ itemSeq = 0
    /\ taskSeq = 0
    /\ activeTime = <<>>
    /\ shownAtPause = <<>>

InitChecklist == program = "checklist" /\ InitModel
InitTasks == program = "tasks" /\ InitModel
Init == InitChecklist \/ InitTasks

\* The clock and the tick, common to both programs.
NextTime ==
    \/ Tick
    \/ Elapse

NextChecklist ==
    \/ KeyUp
    \/ KeyDown
    \/ Pause
    \/ Resume
    \/ Restart
    \/ Add
    \/ Toggle
    \/ NextTime

NextTasks ==
    \/ DeleteTask
    \/ DeleteItem
    \/ SelectTask
    \/ AddTask
    \/ AddItem
    \/ Esc
    \/ TaskUp
    \/ TaskDown
    \/ ToggleTaskItem
    \/ NextTime

Next == NextChecklist \/ NextTasks

\* Either program.
Spec == Init /\ [][Next]_vars
\* The single-level checklist alone.
SpecChecklist == InitChecklist /\ [][NextChecklist]_vars
\* The task/item checklist alone.
SpecTasks == InitTasks /\ [][NextTasks]_vars

\* ================================================================ claims

C2_DoneFrozenIsInterval ==
    /\ IsChecklist =>
          \A i \in DOMAIN items :
              items[i].status = Done =>
                  /\ items[i].checkedAt # Nil
                  /\ items[i].frozenDuration =
                        items[i].checkedAt[1] - items[i].createdAt
    /\ IsTasks =>
          \A i \in DOMAIN items :
              items[i].Status = Done =>
                  /\ items[i].CheckedAt # Nil
                  /\ items[i].FrozenDuration =
                        items[i].CheckedAt[1] - items[i].CreatedAt

\* C3 as stated: when a Started item of the checklist is toggled to Done,
\* its frozenDuration is the time it spent Started and not paused since its
\* creation or last restart.
C3_StopRecordsActiveTime ==
    [][IsChecklist =>
          \A i \in DOMAIN items :
              (items[i].status = Started /\ items'[i].status = Done) =>
                  items'[i].frozenDuration = activeTime'[i]]_vars

\* C4: when the checklist resumes, every item that was Started when the
\* pause began and was neither toggled nor restarted since shows the
\* duration it showed at the instant of the pause.
C4_PauseResumeContinuity ==
    [][(IsChecklist /\ Resume) =>
          \A i \in DOMAIN items :
              shownAtPause[i] # Nil =>
                  /\ duration(items'[i], paused', clock') = shownAtPause[i][1]
                  /\ shown(items'[i], paused', clock') =
                        Round(shownAtPause[i][1])]_vars

\* C4 witness: just after a resume that ended a pause of non-zero length,
\* a Started item shows the non-zero duration it showed when paused.
C4_Witness ==
    /\ IsChecklist
    /\ ~paused
    /\ clock > pausedAt
    /\ \E i \in DOMAIN items :
          /\ items[i].status = Started
          /\ shownAtPause[i] # Nil
          /\ shownAtPause[i][1] > 0
          /\ items[i].createdAt > 0
          /\ clock - items[i].createdAt = shownAtPause[i][1]

\* C5 as stated: in either program, the toggle of a NotStarted item sets
\* createdAt to now - frozenDuration and clears checkedAt.
C5_StartResumesFromFrozen ==
    [][/\ (IsChecklist /\ Toggle) =>
            (items[cursor + 1].status = NotStarted =>
                /\ items'[cursor + 1].status = Started
                /\ items'[cursor + 1].createdAt =
                      clock - items[cursor + 1].frozenDuration
                /\ items'[cursor + 1].checkedAt = Nil)
       /\ (IsTasks /\ ToggleTaskItem /\ cursor < Len(items)) =>
            (items[cursor + 1].Status = NotStarted =>
                /\ items'[cursor + 1].Status = Started
                /\ items'[cursor + 1].CreatedAt =
                      clock - items[cursor + 1].FrozenDuration
                /\ items'[cursor + 1].CheckedAt = Nil)]_vars

\* C6 as stated: restart leaves the item NotStarted, so that one toggle
\* right after the restart of a Done item leaves it Started with
\* createdAt = now.
C6_RestartSetsNotStarted ==
    [][(IsChecklist /\ Restart) =>
          LET after == toggleItem(items'[cursor + 1], paused', clock')
          IN  /\ items'[cursor + 1].status = NotStarted
              /\ after.status = Started
              /\ after.createdAt = clock']_vars

\* C7: restart of the item at the cursor, whatever its status and whether
\* or not the session is paused, leaves it with frozenDuration = 0, no
\* checkedAt and createdAt = now, keeps its text and changes no other item.
C7_RestartResetsTiming ==
    [][(IsChecklist /\ Restart) =>
          /\ Len(items') = Len(items)
          /\ items'[cursor + 1].frozenDuration = 0
          /\ items'[cursor + 1].checkedAt = Nil
          /\ items'[cursor + 1].createdAt = clock
          /\ items'[cursor + 1].text = items[cursor + 1].text
          /\ \A j \in DOMAIN items :
                j # cursor + 1 => items'[j] = items[j]]_vars

\* C7 witness: a Done item without checkedAt (only a restart of a Done
\* item leaves one) reset at the current instant while the session is
\* paused, next to another item that is still running.
C7_Witness ==
    /\ IsChecklist
    /\ paused
    /\ \E i, j \in DOMAIN items :
          /\ items[i].status = Done
          /\ items[i].checkedAt = Nil
          /\ items[i].frozenDuration = 0
          /\ items[i].createdAt = clock
          /\ clock > 0
          /\ items[j].status = Started
          /\ items[j].frozenDuration > 0

\* C8: in either program, the toggle of a Done item changes its status to
\* NotStarted and no other field of it.
C8_ReopenKeepsTiming ==
    [][/\ (IsChecklist /\ Toggle /\ items[cursor + 1].status = Done) =>
            items'[cursor + 1] =
                [items[cursor + 1] EXCEPT !.status = NotStarted]
       /\ (IsTasks /\ ToggleTaskItem /\ cursor < Len(items)
                   /\ items[cursor + 1].Status = Done) =>
            items'[cursor + 1] =
                [items[cursor + 1] EXCEPT !.Status = NotStarted]]_vars

\* C8 witness: a reopened item, NotStarted with the checkedAt and the
\* non-zero frozenDuration of the run it completed.
C8_Witness ==
    /\ IsChecklist
    /\ \E i \in DOMAIN items :
          /\ items[i].status = NotStarted
          /\ items[i].checkedAt # Nil
          /\ items[i].frozenDuration > 0
          /\ items[i].frozenDuration =
                items[i].checkedAt[1] - items[i].createdAt

\* C9: while the checklist is paused, the duration shown for every item
\* stays the same as the clock advances, and a Started item toggled to Done
\* gets as frozenDuration the duration shown just before, with
\* checkedAt = createdAt + frozenDuration.
C9_PausedDurationsFrozen ==
    [][/\ (IsChecklist /\ paused /\ (Elapse \/ Tick)) =>
            \A i \in DOMAIN items :
                duration(items'[i], paused', clock') =
                    duration(items[i], paused, clock)
       /\ (IsChecklist /\ paused /\ Toggle
                       /\ items[cursor + 1].status = Started) =>
            /\ items'[cursor + 1].status = Done
            /\ items'[cursor + 1].frozenDuration =
                  duration(items[cursor + 1], paused, clock)
            /\ items'[cursor + 1].checkedAt =
                  ptr(items[cursor + 1].createdAt
                        + items[cursor + 1].frozenDuration)]_vars

\* C9 witness: an item stopped during the running pause at the frozen
\* snapshot: its checkedAt lies after the start of the pause and before the
\* current instant.
C9_Witness ==
    /\ IsChecklist
    /\ paused
    /\ \E i \in DOMAIN items :
          /\ items[i].status = Done
          /\ items[i].checkedAt # Nil
          /\ items[i].frozenDuration > 0
          /\ items[i].checkedAt[1] > pausedAt
          /\ items[i].checkedAt[1] < clock

\* C10 as stated: right after a pause, every Started item has
\* frozenDuration = pausedAt - createdAt.
C10_PauseSweepUsesOneInstant ==
    [][(IsChecklist /\ Pause) =>
          \A i \in DOMAIN items :
              items'[i].status = Started =>
                  items'[i].frozenDuration =
                      pausedAt' - items'[i].createdAt]_vars

\* C11: pause and resume of the checklist leave every item that is not
\* Started as it was; on a Started item pause changes only frozenDuration
\* and resume changes only createdAt.
C11_SweepsTouchOnlyStarted ==
    [][/\ (IsChecklist /\ Pause) =>
            /\ Len(items') = Len(items)
            /\ \A i \in DOMAIN items :
                  /\ items[i].status # Started => items'[i] = items[i]
                  /\ [items'[i] EXCEPT !.frozenDuration = 0] =
                        [items[i] EXCEPT !.frozenDuration = 0]
       /\ (IsChecklist /\ Resume) =>
            /\ Len(items') = Len(items)
            /\ \A i \in DOMAIN items :
                  /\ items[i].status # Started => items'[i] = items[i]
                  /\ [items'[i] EXCEPT !.createdAt = 0] =
                        [items[i] EXCEPT !.createdAt = 0]]_vars

\* C11 witness: a pause that captured a running item (its frozenDuration is
\* the non-zero duration shown at the pause) next to a Done item that the
\* sweep left alone.
C11_Witness ==
    /\ IsChecklist
    /\ paused
    /\ \E i, j \in DOMAIN items :
          /\ items[i].status = Started
          /\ shownAtPause[i] # Nil
          /\ items[i].frozenDuration > 0
          /\ items[j].status = Done
          /\ items[j].checkedAt # Nil
          /\ items[j].frozenDuration = 0

\* C12: in either program the duration View computes for an item is
\* now - createdAt when the item is Started and the session is not paused,
\* and the item's frozenDuration in every other case.
C12_DurationTable ==
    /\ IsChecklist =>
          \A i \in DOMAIN items :
              duration(items[i], paused, clock) =
                  CASE items[i].status = NotStarted -> items[i].frozenDuration
                    [] items[i].status = Started /\ ~paused ->
                          clock - items[i].createdAt
                    [] items[i].status = Started /\ paused ->
                          items[i].frozenDuration
                    [] items[i].status = Done -> items[i].frozenDuration
    /\ IsTasks =>
          \A i \in DOMAIN items :
              taskItemDuration(items[i], paused, clock) =
                  CASE items[i].Status = NotStarted -> items[i].FrozenDuration
                    [] items[i].Status = Started /\ ~paused ->
                          clock - items[i].CreatedAt
                    [] items[i].Status = Started /\ paused ->
                          items[i].FrozenDuration
                    [] items[i].Status = Done -> items[i].FrozenDuration

\* C12 witness: a paused checklist whose Started item has run on the clock
\* for longer than the frozenDuration it shows.
C12_Witness ==
    /\ IsChecklist
    /\ paused
    /\ \E i \in DOMAIN items :
          /\ items[i].status = Started
          /\ clock - items[i].createdAt > items[i].frozenDuration
          /\ items[i].frozenDuration > 0

\* C13: whenever a command recomputes the status of the open task (add
\* item, toggle, delete item), the status written is Done when the task has
\* items and all are Done, otherwise Started when some item is Started or
\* Done, otherwise NotStarted - also for a task left without items.
C13_AggregationRule ==
    [][(IsTasks /\ (AddItem \/ DeleteItem \/ ToggleTaskItem)
                /\ program' = program) =>
          \A t \in DOMAIN dbTasks' :
              dbTasks'[t].id = selectedTaskID =>
                  LET sts == {dbItems'[r].status :
                                r \in {k \in DOMAIN dbItems' :
                                    dbItems'[k].task_id = selectedTaskID}}
                  IN  dbTasks'[t].status =
                        IF sts = {Done} THEN Done
                        ELSE IF Started \in sts \/ Done \in sts THEN Started
                        ELSE NotStarted]_vars

\* C13 witness: a task stored as Started whose two items are Done and
\* NotStarted.
C13_Witness ==
    /\ IsTasks
    /\ \E t \in DOMAIN dbTasks :
          /\ dbTasks[t].status = Started
          /\ Len(dbItems) = 2
          /\ dbItems[1].task_id = dbTasks[t].id
          /\ dbItems[2].task_id = dbTasks[t].id
          /\ dbItems[1].status = Done
          /\ dbItems[2].status = NotStarted

\* C14: in every state of the task/item program the stored status of every
\* task is the aggregation rule applied to the counts of its stored items.
C14_StoredStatusIsAggregate ==
    IsTasks =>
        \A t \in DOMAIN dbTasks :
            LET id == dbTasks[t].id
                total == Cardinality({r \in DOMAIN dbItems :
                                         dbItems[r].task_id = id})
            IN  dbTasks[t].status =
                    newStatus(total, CountStatus(dbItems, id, Done),
                              CountStatus(dbItems, id, Started))

\* C14 witness: two stored tasks, one Done through its only item and one
\* Started through its only item.
C14_Witness ==
    /\ IsTasks
    /\ Len(dbTasks) = 2
    /\ Len(dbItems) = 2
    /\ dbItems[1].task_id # dbItems[2].task_id
    /\ \E t, u \in DOMAIN dbTasks :
          /\ dbTasks[t].status = Done
          /\ dbTasks[u].status = Started

\* C15 as stated: no command faults, and whenever the collection on screen
\* (tasks in the task list, items inside a task or in the checklist) is not
\* empty the cursor is an index into it.
C15_CursorInRange ==
    /\ program # Panicked
    /\ IsChecklist => (Len(items) > 0 => cursor >= 0 /\ cursor < Len(items))
    /\ (IsTasks /\ selectedTaskID = 0) =>
          (Len(tasks) > 0 => cursor >= 0 /\ cursor < Len(tasks))
    /\ (IsTasks /\ selectedTaskID # 0) =>
          (Len(items) > 0 => cursor >= 0 /\ cursor < Len(items))

\* C16 as stated: after every toggle, restart, pause and resume of the
\* checklist, row i of the store holds the status, createdAt, checkedAt and
\* frozenDuration of item i.
C16_StoreMatchesMemory ==
    [][(IsChecklist /\ (Toggle \/ Restart \/ Pause \/ Resume)) =>
          /\ Len(dbItems') = Len(items')
          /\ \A i \in DOMAIN items' :
                /\ dbItems'[i].status = items'[i].status
                /\ dbItems'[i].created_at = items'[i].createdAt
                /\ dbItems'[i].checked_at = items'[i].checkedAt
                /\ dbItems'[i].frozen_duration =
                      items'[i].frozenDuration]_vars

\* C17: in either program a toggle moves the item at the cursor one step
\* round the cycle NotStarted -> Started -> Done -> NotStarted and keeps
\* its text (and, in the task/item program, its ID and TaskID); three
\* toggles in a row bring a NotStarted item back to NotStarted.
C17_ToggleCycle ==
    [][/\ (IsChecklist /\ Toggle) =>
            LET it == items[cursor + 1]
                three == toggleItem(toggleItem(toggleItem(it, paused, clock),
                                               paused, clock), paused, clock)
            IN  /\ Len(items') = Len(items)
                /\ items'[cursor + 1].status = (it.status + 1) % 3
                /\ items'[cursor + 1].text = it.text
                /\ three.status = it.status
                /\ three.text = it.text
       /\ (IsTasks /\ ToggleTaskItem /\ program' = program) =>
            LET it == items[cursor + 1]
                three == toggleTaskItem(
                            toggleTaskItem(toggleTaskItem(it, clock), clock),
                            clock)
            IN  /\ Len(items') = Len(items)
                /\ items'[cursor + 1].Status = (it.Status + 1) % 3
                /\ items'[cursor + 1].Text = it.Text
                /\ items'[cursor + 1].ID = it.ID
                /\ items'[cursor + 1].TaskID = it.TaskID
                /\ three.Status = it.Status
                /\ <<three.Text, three.ID, three.TaskID>> =
                      <<it.Text, it.ID, it.TaskID>>]_vars

\* C17 witness: an item of a task back at NotStarted after a full cycle (it
\* carries the CheckedAt of its stop), with the ID the store gave it.
C17_Witness ==
    /\ IsTasks
    /\ \E i \in DOMAIN items :
          /\ items[i].Status = NotStarted
          /\ items[i].CheckedAt # Nil
          /\ items[i].ID = 2
          /\ items[i].Text = <<"a">>

\* C18: every stored item belongs to a stored task, the deletion of a task
\* removes the task's items with it, and the deletion of an item removes
\* the row of that item and no other row.
C18_DeleteCascades ==
    [][IsTasks =>
          /\ \A r \in DOMAIN dbItems' :
                \E t \in DOMAIN dbTasks' :
                    dbTasks'[t].id = dbItems'[r].task_id
          /\ (DeleteItem /\ program' = program) =>
                LET gone == items[cursor + 1].ID
                    Kept(row) == row.id # gone
                IN  /\ Len(dbItems') = Len(dbItems) - 1
                    /\ dbItems' = SelectSeq(dbItems, Kept)]_vars

\* C18 witness: of two tasks that each had an item, the first is gone with
\* its item and the second is stored with its own.
C18_Witness ==
    /\ IsTasks
    /\ taskSeq = 2 /\ itemSeq = 2
    /\ Len(dbTasks) = 1 /\ dbTasks[1].id = 2
    /\ Len(dbItems) = 1 /\ dbItems[1].id = 2 /\ dbItems[1].task_id = 2
    /\ dbItems[1].status = Started

\* C19: in either program the handling of a tick leaves the items, the
\* cursor, the paused flag, pausedAt, the tasks and the open task as they
\* were.
C19_TickChangesNothing ==
    [][tickDue' # tickDue =>
          /\ items' = items
          /\ cursor' = cursor
          /\ paused' = paused
          /\ pausedAt' = pausedAt
          /\ tasks' = tasks
          /\ selectedTaskID' = selectedTaskID]_vars

\* C19 witness: a tick was just handled (the next one is due a second from
\* now) while an item of the checklist had been running for a while.
C19_Witness ==
    /\ IsChecklist
    /\ tickDue = ptr(clock + Second)
    /\ ~paused
    /\ \E i \in DOMAIN items :
          /\ items[i].status = Started
          /\ items[i].createdAt < clock
          /\ items[i].frozenDuration = 0

\* C20 as stated: in the checklist no item has a negative frozenDuration,
\* and while the session is not paused no Started item has a createdAt
\* later than the current instant.
C20_NoNegativeDurations ==
    IsChecklist =>
        \A i \in DOMAIN items :
            /\ items[i].frozenDuration >= 0
            /\ (items[i].status = Started /\ ~paused) =>
                  items[i].createdAt <= clock
====
